---- MODULE Spec2Model ----
(***************************************************************************)
(* A model of gyptest.py, the test runner for GYP tests: the CommandRunner *)
(* class (subst, display, execute, run), find_all_gyptest_files and main   *)
(* with its formats x tests matrix and its three result lists.             *)
(*                                                                         *)
(* Representation of Python values.                                        *)
(*   A Python string is a sequence of pieces; a piece is a TLA+ string     *)
(*   standing for a run of characters.  The pieces "%(x)s", "%(x)d",       *)
(*   "%d", "%%" and a final "%" are the conversion specifications the      *)
(*   format operator interprets; every other piece is literal text.        *)
(*   A command or template is a record [type, s]: type "str" with s its    *)
(*   pieces, type "list" with s the argv, type "tuple" with s the callable *)
(*   name followed by its arguments, type "int" with n the number.         *)
(*   The outcome of a call is a record [kind, exc, val]: kind "return"     *)
(*   with the value, or kind "raise" with the exception's name.            *)
(***************************************************************************)
EXTENDS Integers, Sequences, FiniteSets, TLC

(* ------------------------------ bounds --------------------------------- *)

\* longest template, in pieces, handed to subst
MaxTemplateLen == 2

\* most positional arguments on main's command line
MaxArgs == 2

\* most formats named by the -f option
MaxFormats == 2

\* most calls a caller makes on one runner
MaxCalls == 2

\* most bytes a child process writes
MaxOutput == 3

\* bytes the pipe between a child and the runner holds
PipeCapacity == 2

(* ------------------------- Python values -------------------------------- *)

PyStr(pieces) == [type |-> "str", s |-> pieces, n |-> 0]
PyList(items) == [type |-> "list", s |-> items, n |-> 0]
PyTuple(items) == [type |-> "tuple", s |-> items, n |-> 0]
PyInt(i) == [type |-> "int", s |-> <<>>, n |-> i]
PyNone == [type |-> "NoneType", s |-> <<>>, n |-> 0]

Return(v) == [kind |-> "return", exc |-> "", val |-> v]
Raise(e, v) == [kind |-> "raise", exc |-> e, val |-> v]

\* the keys a substitution dictionary may hold
Keys == {"x", "y"}

\* the values a substitution dictionary may hold: the string 'A', the int 7
DictValues == { [t |-> "str", v |-> <<"A">>], [t |-> "int", v |-> <<"7">>] }

\* every dictionary over Keys, the empty one included
Dicts == UNION { [S -> DictValues] : S \in SUBSET Keys }

EmptyDict == [k \in {} |-> [t |-> "str", v |-> <<"A">>]]

\* the value None for an optional dictionary argument
None == [k \in {"None"} |-> [t |-> "none", v |-> <<>>]]

\* Python truth of a dictionary: non-empty
Truthy(d) == DOMAIN d # {}

(* ------------------------ the format operator --------------------------- *)

\* conversion specifications with a mapping key, their key and conversion
KeySpecs == {"%(x)s", "%(x)d"}
SpecKey(p) == "x"
SpecConv(p) == IF p = "%(x)d" THEN "d" ELSE "s"

\* string % dictionary, piece by piece from the left: the first failing
\* conversion decides the exception
RECURSIVE PyFormat(_, _, _)
PyFormat(fmt, d, acc) ==
  IF fmt = <<>> THEN [exc |-> "", out |-> acc]
  ELSE LET p == Head(fmt)
           rest == Tail(fmt)
       IN CASE p = "%%" -> PyFormat(rest, d, Append(acc, "%"))
            [] p = "%" -> [exc |-> "ValueError", out |-> <<>>]
            [] p = "%d" -> [exc |-> "TypeError", out |-> <<>>]
            [] p \in KeySpecs ->
                 IF SpecKey(p) \notin DOMAIN d
                 THEN [exc |-> "KeyError", out |-> <<>>]
                 ELSE IF SpecConv(p) = "d" /\ d[SpecKey(p)].t # "int"
                      THEN [exc |-> "TypeError", out |-> <<>>]
                      ELSE PyFormat(rest, d, acc \o d[SpecKey(p)].v)
            [] OTHER -> PyFormat(rest, d, Append(acc, p))

\* value % dictionary for any left operand: only a string supports it
PyMod(value, d) ==
  IF value.type # "str" THEN [exc |-> "TypeError", out |-> <<>>]
  ELSE PyFormat(value.s, d, <<>>)

(* --------------------------- CommandRunner ------------------------------ *)

\* an except clause that catches nothing
SubstCaughtNothing == {}

\* the exceptions the except clause of subst catches
SubstCaught == {"TypeError"}

\* CommandRunner.subst(string, dictionary) on a runner whose stored
\* dictionary is selfDict
subst(selfDict, string, dictionary) ==
  LET dict == IF dictionary = None THEN selfDict ELSE dictionary
  IN IF Truthy(dict)
     THEN LET r == PyMod(string, dict)
          IN IF r.exc = "" THEN Return(PyStr(r.out))
             ELSE IF r.exc \in SubstCaught THEN Return(string)
             ELSE Raise(r.exc, string)
     ELSE Return(string)

\* the names bound at module level: the imports of the file
ModuleGlobals == {"os", "optparse", "subprocess", "sys"}

\* str.join of a list of strings: the items with sep between them
RECURSIVE Join(_, _)
Join(sep, items) ==
  IF items = <<>> THEN <<>>
  ELSE IF Len(items) = 1 THEN <<items[1]>>
  ELSE <<items[1], sep>> \o Join(sep, Tail(items))

\* repr of a string argument: the text between quotes
Repr(a) == <<"'", a, "'">>

RECURSIVE ReprJoin(_)
ReprJoin(args) ==
  IF args = <<>> THEN <<>>
  ELSE IF Len(args) = 1 THEN Repr(args[1])
  ELSE Repr(args[1]) \o <<", ">> \o ReprJoin(Tail(args))

\* '%s(%s)' % (func.__name__, ', '.join(map(repr, args)))
CallableText(command) ==
  <<command.s[1], "(">> \o ReprJoin(Tail(command.s)) \o <<")">>

\* s.endswith('\n') for a string s
EndsWithNewline(pieces) == pieces # <<>> /\ pieces[Len(pieces)] = "\n"

\* CommandRunner.display(command) on a runner with the given verbose flag
\* and stored dictionary: the outcome and the text written to sys.stdout
\* (<<>> when nothing is written)
display(isVerbose, selfDict, command) ==
  IF ~isVerbose THEN [res |-> Return(PyNone), wrote |-> <<>>]
  ELSE
    LET \* "if type(command) == type(())" binds s to CallableText(command);
        \* the "if type(command) == type([]) ... else" after it rebinds s
        \* on both of its branches, so s is the result of that statement
        sList == IF command.type = "list"
                 THEN Return(PyStr(Join(" ", command.s)))
                 ELSE subst(selfDict, command, None)
    IN IF sList.kind = "raise" THEN [res |-> sList, wrote |-> <<>>]
       ELSE IF sList.val.type # "str"
            THEN [res |-> Raise("AttributeError", command), wrote |-> <<>>]
            ELSE LET s == IF EndsWithNewline(sList.val.s) THEN sList.val.s
                          ELSE Append(sList.val.s, "\n")
                 IN [res |-> Return(PyNone), wrote |-> s]

\* CommandRunner.execute below its "if not self.active" test: the branch
\* taken for a command, up to the point where execute returns, raises,
\* calls the callable or spawns the process
execute_active(selfDict, command) ==
  IF command.type = "str"
  THEN LET r == subst(selfDict, command, None)
       IN IF r.kind = "raise" THEN [path |-> "raise", res |-> r]
          ELSE IF "shlex" \notin ModuleGlobals
          THEN [path |-> "raise", res |-> Raise("NameError", r.val)]
          ELSE IF r.val.s # <<>> /\ r.val.s[1] = "cd"
          THEN [path |-> "call",
                res |-> Return(PyTuple(<<"chdir">> \o
                          SelectSeq(Tail(r.val.s), LAMBDA p : p # " ")))]
          ELSE [path |-> "spawn", res |-> Return(r.val)]
  ELSE IF command.type = "tuple"
  THEN [path |-> "call", res |-> Return(command)]
  ELSE [path |-> "spawn", res |-> Return(command)]

\* execute without its dry-run test
execute_ignoring_active(isActive, selfDict, command) ==
  execute_active(selfDict, command)

\* CommandRunner.execute: nothing is done when the runner is not active
execute(isActive, selfDict, command) ==
  IF ~isActive THEN [path |-> "dry", res |-> Return(PyInt(0))]
  ELSE execute_active(selfDict, command)

\* func(*args) for the callable named by a tuple command, in working
\* directory dir: the outcome and the working directory afterwards.  The
\* callables are os.chdir, which returns None, ok, which returns 0, and
\* boom, which raises.
CallFunc(command, dir) ==
  LET func == command.s[1]
      args == Tail(command.s)
  IN CASE func = "chdir" ->
            IF Len(args) = 1 THEN [res |-> Return(PyNone), cwd |-> args[1]]
            ELSE [res |-> Raise("TypeError", command), cwd |-> dir]
       [] func = "ok" -> [res |-> Return(PyInt(0)), cwd |-> dir]
       [] OTHER -> [res |-> Raise("RuntimeError", command), cwd |-> dir]

(* ------------------------ find_all_gyptest_files ------------------------ *)

\* the directory tree the runner is started in: for every directory what
\* os.walk lists in it
Tree ==
  [d \in {"docs", "test", "test/.svn", "test/alpha"} |->
     CASE d = "docs" -> [dirs |-> <<>>, files |-> <<"README">>]
       [] d = "test" -> [dirs |-> <<".svn", "alpha">>,
                         files |-> <<"gyptest-z.py", "README">>]
       [] d = "test/.svn" -> [dirs |-> <<>>, files |-> <<"gyptest-svn.py">>]
       [] OTHER -> [dirs |-> <<>>,
                    files |-> <<"gyptest-a.py", "gyptest-notes.txt">>]]

\* os.path.join(root, name) for the paths of Tree
PathJoin(root, name) ==
  CASE root = "docs" -> "docs/README"
    [] root = "test" /\ name = ".svn" -> "test/.svn"
    [] root = "test" /\ name = "alpha" -> "test/alpha"
    [] root = "test" /\ name = "gyptest-z.py" -> "test/gyptest-z.py"
    [] root = "test" /\ name = "README" -> "test/README"
    [] root = "test/.svn" -> "test/.svn/gyptest-svn.py"
    [] root = "test/alpha" /\ name = "gyptest-a.py" -> "test/alpha/gyptest-a.py"
    [] OTHER -> "test/alpha/gyptest-notes.txt"

\* f.startswith('gyptest') and f.endswith('.py')
StartsWithGyptest(f) ==
  f \in {"gyptest-z.py", "gyptest-svn.py", "gyptest-a.py", "gyptest-notes.txt"}
EndsWithPy(f) == f \in {"gyptest-z.py", "gyptest-svn.py", "gyptest-a.py"}

\* the order of Python strings on the paths that can be collected
PathRank(p) ==
  CASE p = "test/.svn/gyptest-svn.py" -> 1
    [] p = "test/alpha/gyptest-a.py" -> 2
    [] OTHER -> 3

\* list.sort() by insertion
RECURSIVE SortInsert(_, _)
SortInsert(x, sorted) ==
  IF sorted = <<>> THEN <<x>>
  ELSE IF PathRank(x) <= PathRank(Head(sorted)) THEN <<x>> \o sorted
  ELSE <<Head(sorted)>> \o SortInsert(x, Tail(sorted))

RECURSIVE Sort(_)
Sort(items) ==
  IF items = <<>> THEN <<>> ELSE SortInsert(Head(items), Sort(Tail(items)))

\* os.walk(root), top-down, collecting the matching files of each directory
\* and not descending into '.svn'
RECURSIVE Walk(_)
Walk(root) ==
  LET dirs == SelectSeq(Tree[root].dirs, LAMBDA d : d # ".svn")
      files == SelectSeq(Tree[root].files,
                         LAMBDA f : StartsWithGyptest(f) /\ EndsWithPy(f))
      RECURSIVE Below(_)
      Below(ds) == IF ds = <<>> THEN <<>>
                   ELSE Walk(PathJoin(root, Head(ds))) \o Below(Tail(ds))
      RECURSIVE Joined(_)
      Joined(fs) == IF fs = <<>> THEN <<>>
                    ELSE <<PathJoin(root, Head(fs))>> \o Joined(Tail(fs))
  IN Joined(files) \o Below(dirs)

find_all_gyptest_files(directory) == Sort(Walk(directory))

\* os.path.isdir(arg) and os.path.normpath(arg) for the arguments of main
IsDir(arg) == arg \in {"docs", "docs/", "test"}
NormPath(arg) == IF arg = "docs/" THEN "docs" ELSE arg

(* --------------------------- inputs of main ----------------------------- *)

\* all sequences over S of length lo..hi
SeqsOf(S, lo, hi) == UNION { [1..n -> S] : n \in lo..hi }

\* the positional arguments: two test scripts and, written with a trailing
\* slash, a directory that holds no test script; the directory 'test' is
\* what main walks when -a is given and no argument is
ArgItems == {"t1", "t2", "docs/"}

Formats == {"fmtA", "fmtB"}

\* every test identity main can come to run
TestNames == {"t1", "t2", "test/alpha/gyptest-a.py", "test/gyptest-z.py"}

\* the default format of each platform main knows
PlatformFormat ==
  [p \in {"freebsd7", "freebsd8", "cygwin", "win32", "linux2", "darwin"} |->
     CASE p \in {"freebsd7", "freebsd8"} -> "make"
       [] p \in {"cygwin", "win32"} -> "msvs"
       [] p = "linux2" -> "scons"
       [] OTHER -> "xcode"]

\* the values of sys.platform considered: two that main knows, one it does not
Platforms == {"linux2", "darwin", "sunos5"}

\* every format main can come to run: those of -f and the platform defaults
AllFormats == Formats \cup { PlatformFormat[p] : p \in DOMAIN PlatformFormat }

\* the exit statuses a test script can end with; a negative one is the
\* returncode of a child killed by a signal
Statuses == {-1, 0, 1, 2, 3}

\* what the test scripts do: the exit status of each test under each format.
\* Every script passes but t2 under fmtA; a mix of all statuses.
OutcomeScenario ==
  [p \in AllFormats \X TestNames |->
     IF p[2] = "t2" /\ p[1] = "fmtA" THEN 1 ELSE 0]
OutcomeMixed ==
  [p \in AllFormats \X TestNames |->
     CASE p[2] = "t1" -> 2
       [] p[2] = "t2" -> IF p[1] = "fmtA" THEN -1 ELSE 3
       [] p[2] = "test/gyptest-z.py" -> IF p[1] = "fmtA" THEN 0 ELSE 1
       [] OTHER -> IF p[1] = "fmtA" THEN 2 ELSE 0]
Outcomes == {OutcomeScenario, OutcomeMixed}

\* the value of the -f option: '' or formats separated by commas
FormatOptions ==
  {<<>>} \cup { Join(",", fs) : fs \in SeqsOf(Formats, 1, MaxFormats) }

\* str.split(',') of a non-empty option value
Split(pieces) == SelectSeq(pieces, LAMBDA p : p # ",")

\* the options optparse hands to main; '' stands for an absent --chdir
Options ==
  [all : BOOLEAN, chdir : {"", "/work"}, format : FormatOptions,
   list : BOOLEAN, no_exec : BOOLEAN, passed : BOOLEAN,
   path : {<<>>, <<"/extra">>}, quiet : BOOLEAN]

\* the name of the interpreter, sys.executable
Executable == "python"

(* ------------------------------- state ---------------------------------- *)

VARIABLES
  verbose,           \* CommandRunner.verbose
  active,            \* CommandRunner.active
  subst_dictionary,  \* cr._subst_dictionary
  self_stdout,       \* cr.stdout: <<>> while unset, else <<bytes read>>
  sys_stdout,        \* the writes made to sys.stdout, in order
  sys_stderr,        \* the writes made to sys.stderr, in order
  cwd,               \* the working directory of the process
  environ,           \* os.environ: PATH, PYTHONPATH, TESTGYP_FORMAT
  spawned,           \* the child processes started, in order
  called,            \* the callables invoked, in order
  pc,                \* where main is
  opts, args,        \* what parser.parse_args returned
  outcome,           \* the exit status of each test under each format
  tests,             \* main's list of tests
  format_list,       \* main's list of formats
  fi, ti,            \* position of the two loops in their lists
  passed, failed, no_result,   \* the three result lists
  main_result,       \* how main ended: its return value or its exception
  env_writes,        \* number of assignments to os.environ['TESTGYP_FORMAT']
  runs,              \* the (format, test, status) runs made, in order
  calls,             \* number of calls made on the runner by a caller
  call,              \* the call last made: its method, command, sink
  ret,               \* how that call ended, Pending while it has not
  cr_pc,             \* "idle", or "wait" while execute is in p.wait()
  child,             \* the child process of the call under way
  pipe,              \* number of bytes in the pipe from the child
  s_string, s_dictionary,   \* the arguments of a call of subst
  s_result           \* how that call ended

procVars == <<verbose, active, subst_dictionary, self_stdout, sys_stdout,
              sys_stderr, cwd, environ, spawned, called>>
mainVars == <<pc, opts, args, outcome, tests, format_list, fi, ti,
              passed, failed, no_result, main_result, env_writes, runs>>
crVars == <<calls, call, ret, cr_pc, child, pipe>>
substVars == <<s_string, s_dictionary, s_result>>
vars == <<procVars, mainVars, crVars, substVars>>

Pending == [kind |-> "pending", exc |-> "", val |-> PyNone]

\* the process at its start, with the class attributes of CommandRunner
\* and the dictionary of the runner as given
ProcStart(isVerbose, isActive, dictionary) ==
  /\ verbose = isVerbose
  /\ active = isActive
  /\ subst_dictionary = dictionary
  /\ self_stdout = <<>>
  /\ sys_stdout = <<>>
  /\ sys_stderr = <<>>
  /\ cwd = "/start"
  /\ environ = [PATH |-> <<"/bin">>, PYTHONPATH |-> <<>>,
                TESTGYP_FORMAT |-> <<>>]
  /\ spawned = <<>>
  /\ called = <<>>

MainIdle ==
  /\ pc = "start"
  /\ tests = <<>>
  /\ format_list = <<>>
  /\ fi = 0
  /\ ti = 0
  /\ passed = <<>>
  /\ failed = <<>>
  /\ no_result = <<>>
  /\ main_result = Pending
  /\ env_writes = 0
  /\ runs = <<>>

NoChild == [total |-> 0, remaining |-> 0, code |-> 0, exited |-> TRUE,
            sink |-> TRUE]
NoCall == [method |-> "", command |-> PyNone, display |-> PyNone,
           sink |-> FALSE]

\* no caller is using the runner
CRIdle ==
  /\ calls = 0
  /\ call = NoCall
  /\ ret = Pending
  /\ cr_pc = "idle"
  /\ child = NoChild
  /\ pipe = 0

SubstIdle ==
  /\ s_string = PyNone
  /\ s_dictionary = None
  /\ s_result = Pending

\* main is not running
MainAbsent ==
  /\ MainIdle
  /\ opts = [all |-> FALSE, chdir |-> "", format |-> <<>>, list |-> FALSE,
             no_exec |-> FALSE, passed |-> FALSE, path |-> <<>>,
             quiet |-> FALSE]
  /\ args = <<>>
  /\ outcome = OutcomeScenario

\* the class attributes as the class statement sets them, the runner main
\* will build, and what parse_args returned
Init ==
  /\ ProcStart(TRUE, TRUE, EmptyDict)
  /\ MainIdle
  /\ CRIdle
  /\ SubstIdle
  /\ opts \in Options
  /\ args \in SeqsOf(ArgItems, 0, MaxArgs)
  /\ outcome \in Outcomes

(* -------------------------------- main ---------------------------------- *)

\* "if opts.chdir: os.chdir(opts.chdir)"
CwdAfterChdir == IF opts.chdir # "" THEN opts.chdir ELSE cwd

\* "if opts.path: os.environ['PATH'] += ':' + ':'.join(opts.path)"
EnvAfterPath ==
  IF opts.path # <<>>
  THEN [environ EXCEPT !.PATH = @ \o <<":">> \o Join(":", opts.path)]
  ELSE environ

\* "if not args: if not opts.all: ... return 1"
NoTestsNamed == args = <<>> /\ ~opts.all

\* the loop that builds tests from args, a directory standing for the
\* test scripts found below it
RECURSIVE BuildTests(_)
BuildTests(as) ==
  IF as = <<>> THEN <<>>
  ELSE (IF IsDir(Head(as)) THEN find_all_gyptest_files(NormPath(Head(as)))
        ELSE <<Head(as)>>) \o BuildTests(Tail(as))

TestsOfArgs == BuildTests(IF args = <<>> THEN <<"test">> ELSE args)

\* str(n) for a small natural number
Digit(n) == <<"0", "1", "2", "3", "4", "5", "6", "7", "8", "9">>[n + 1]
IntStr(n) == IF n < 10 THEN <<Digit(n)>>
             ELSE <<Digit((n \div 10) % 10), Digit(n % 10)>>

\* an append that skips a name the list already holds
append_unique(list, x) ==
  IF \E i \in 1..Len(list) : list[i] = x THEN list ELSE Append(list, x)

\* list.append(x)
append(list, x) == Append(list, x)

\* an environment left as it is
PublishNothing(env, format) == env

\* "os.environ['TESTGYP_FORMAT'] = format"
PublishFormat(env, format) == [env EXCEPT !.TESTGYP_FORMAT = <<format>>]

\* the return value with its test inverted
ReturnValueInverted(failedList) == IF failedList # <<>> THEN 0 ELSE 1

\* "if failed: return 1 else: return 0"
ReturnValue(failedList) == IF failedList # <<>> THEN 1 ELSE 0

\* a status test whose second test is an "if", not an "elif"
ClassifyTwice(status) ==
  (IF status = 2 THEN {"no_result"} ELSE {})
  \cup (IF status # 0 THEN {"failed"} ELSE {"passed"})

\* a status test without the case of status 2
ClassifyNoResultFails(status) ==
  IF status # 0 THEN {"failed"} ELSE {"passed"}

\* the status test of the inner loop: the lists the test is appended to
Classify(status) ==
  IF status = 2 THEN {"no_result"}
  ELSE IF status # 0 THEN {"failed"}
  ELSE {"passed"}

\* main stops at once: no test was named and -a was not given
MainUsage ==
  /\ pc = "start"
  /\ NoTestsNamed
  /\ cwd' = CwdAfterChdir
  /\ environ' = EnvAfterPath
  /\ sys_stderr' = Append(sys_stderr, <<"Specify -a to get all tests.", "\n">>)
  /\ main_result' = Return(PyInt(1))
  /\ pc' = "exit"
  /\ UNCHANGED <<crVars, substVars, verbose, active, subst_dictionary,
                 self_stdout, sys_stdout,
                 spawned, called, opts, args, outcome, tests, format_list,
                 fi, ti, passed, failed, no_result, env_writes, runs>>

\* the "print test" loop of --list: the print statement writes the test,
\* then the newline
RECURSIVE PrintAll(_)
PrintAll(ts) ==
  IF ts = <<>> THEN <<>>
  ELSE << <<Head(ts)>>, <<"\n">> >> \o PrintAll(Tail(ts))

\* main lists the tests and leaves through sys.exit(0)
MainList ==
  /\ pc = "start"
  /\ ~NoTestsNamed
  /\ opts.list
  /\ cwd' = CwdAfterChdir
  /\ environ' = EnvAfterPath
  /\ tests' = TestsOfArgs
  /\ sys_stdout' = sys_stdout \o PrintAll(TestsOfArgs)
  /\ main_result' = Raise("SystemExit", PyInt(0))
  /\ pc' = "exit"
  /\ UNCHANGED <<crVars, substVars, verbose, active, subst_dictionary,
                 self_stdout, sys_stderr,
                 spawned, called, opts, args, outcome, format_list,
                 fi, ti, passed, failed, no_result, env_writes, runs>>

\* main sets the runner up and reaches the loop over the formats; without
\* -f the format is looked up by sys.platform, a KeyError when it is unknown
MainStart ==
  /\ pc = "start"
  /\ ~NoTestsNamed
  /\ ~opts.list
  /\ cwd' = CwdAfterChdir
  /\ tests' = TestsOfArgs
  /\ verbose' = ~opts.quiet
  /\ active' = ~opts.no_exec
  /\ subst_dictionary' = EmptyDict
  /\ environ' = [EnvAfterPath EXCEPT
                   !.PYTHONPATH = <<CwdAfterChdir, "/", "test/lib">>]
  /\ sys_stdout' = IF opts.quiet THEN sys_stdout
                   ELSE Append(sys_stdout,
                          <<"PYTHONPATH=", CwdAfterChdir, "/", "test/lib", "\n">>)
  /\ passed' = <<>>
  /\ failed' = <<>>
  /\ no_result' = <<>>
  /\ \E platform \in Platforms :
       IF opts.format # <<>>
       THEN /\ format_list' = Split(opts.format)
            /\ main_result' = main_result
            /\ pc' = "formats"
       ELSE IF platform \in DOMAIN PlatformFormat
       THEN /\ format_list' = <<PlatformFormat[platform]>>
            /\ main_result' = main_result
            /\ pc' = "formats"
       ELSE /\ format_list' = format_list
            /\ main_result' = Raise("KeyError", PyNone)
            /\ pc' = "exit"
  /\ fi' = 1
  /\ UNCHANGED <<crVars, substVars, self_stdout, sys_stderr, spawned, called,
                 opts, args,
                 outcome, ti, env_writes, runs>>

\* "for format in format_list": the head of one iteration
FormatIter ==
  /\ pc = "formats"
  /\ fi <= Len(format_list)
  /\ environ' = PublishFormat(environ, format_list[fi])
  /\ env_writes' = env_writes + 1
  /\ sys_stdout' = IF opts.quiet THEN sys_stdout
                   ELSE Append(sys_stdout,
                          <<"TESTGYP_FORMAT=", format_list[fi], "\n">>)
  /\ ti' = 1
  /\ pc' = "tests"
  /\ UNCHANGED <<crVars, substVars, verbose, active, subst_dictionary,
                 self_stdout, sys_stderr,
                 cwd, spawned, called, opts, args, outcome, tests,
                 format_list, fi, passed, failed, no_result, main_result,
                 runs>>

\* the appends of the inner loop for a test and the status cr.run returned
FileStatus(format, test, status) ==
  LET lists == Classify(status)
  IN /\ runs' = Append(runs,
                  [format |-> format, test |-> test, status |-> status])
     /\ no_result' = IF "no_result" \in lists
                     THEN append(no_result, test) ELSE no_result
     /\ failed' = IF "failed" \in lists
                  THEN append(failed, test) ELSE failed
     /\ passed' = IF "passed" \in lists
                  THEN append(passed, test) ELSE passed

\* "for test in tests" on a runner that is not active: cr.run displays the
\* command, execute returns 0 at once and the status is filed
RunTestDry ==
  /\ pc = "tests"
  /\ ti <= Len(tests)
  /\ LET command == PyList(<<Executable, tests[ti]>>)
         shown == display(verbose, subst_dictionary, command)
         branch == execute(active, subst_dictionary, command)
     IN /\ branch.path = "dry"
        /\ sys_stdout' = IF shown.wrote = <<>> THEN sys_stdout
                         ELSE Append(sys_stdout, shown.wrote)
        /\ FileStatus(format_list[fi], tests[ti], branch.res.val.n)
  /\ ti' = ti + 1
  /\ UNCHANGED <<crVars, substVars, verbose, active, subst_dictionary,
                 self_stdout, sys_stderr, cwd, environ, spawned, called,
                 pc, opts, args, outcome, tests, format_list, fi,
                 main_result, env_writes>>

\* "for test in tests" on an active runner, up to p.wait(): cr.run displays
\* the command and execute spawns the test script with the runner's own
\* streams as sinks and the environment of the process
RunTestSpawn ==
  /\ pc = "tests"
  /\ ti <= Len(tests)
  /\ LET format == format_list[fi]
         test == tests[ti]
         command == PyList(<<Executable, test>>)
         shown == display(verbose, subst_dictionary, command)
         branch == execute(active, subst_dictionary, command)
     IN /\ branch.path = "spawn"
        /\ sys_stdout' = IF shown.wrote = <<>> THEN sys_stdout
                         ELSE Append(sys_stdout, shown.wrote)
        /\ spawned' = Append(spawned,
                        [argv |-> branch.res.val.s, sink |-> TRUE,
                         env |-> environ, format |-> format])
        /\ child' = [total |-> 0, remaining |-> 0,
                     code |-> outcome[<<format, test>>],
                     exited |-> FALSE, sink |-> TRUE]
  /\ cr_pc' = "wait"
  /\ pc' = "wait"
  /\ UNCHANGED <<calls, call, ret, pipe, substVars, verbose, active,
                 subst_dictionary, self_stdout, sys_stderr, cwd, environ,
                 called, opts, args, outcome, tests, format_list, fi, ti,
                 passed, failed, no_result, main_result, env_writes, runs>>

\* p.wait() returns once the test script has exited: no pipe is read,
\* execute returns p.returncode and the status is filed
RunTestReturns ==
  /\ pc = "wait"
  /\ cr_pc = "wait"
  /\ child.exited
  /\ FileStatus(format_list[fi], tests[ti], child.code)
  /\ cr_pc' = "idle"
  /\ ti' = ti + 1
  /\ pc' = "tests"
  /\ UNCHANGED <<calls, call, ret, child, pipe, substVars, procVars, opts,
                 args, outcome, tests, format_list, fi, main_result,
                 env_writes>>

\* the inner loop is exhausted: on to the next format
EndTests ==
  /\ pc = "tests"
  /\ ti > Len(tests)
  /\ fi' = fi + 1
  /\ pc' = "formats"
  /\ UNCHANGED <<crVars, substVars, procVars, opts, args, outcome, tests,
                 format_list, ti,
                 passed, failed, no_result, main_result, env_writes, runs>>

\* report(description, tests): the writes it makes
Report(description, ts) ==
  IF ts = <<>> THEN <<>>
  ELSE << (IF Len(ts) = 1
           THEN <<"\n", description, " the following test:\n">>
           ELSE <<"\n", description, " the following ">> \o IntStr(Len(ts))
                  \o <<" tests:\n">>),
          <<"\t">> \o Join("\n\t", ts) \o <<"\n">> >>

\* the loop over the formats is exhausted: the report and main's return
MainReturn ==
  /\ pc = "formats"
  /\ fi > Len(format_list)
  /\ sys_stdout' =
       IF opts.quiet THEN sys_stdout
       ELSE sys_stdout
            \o (IF opts.passed THEN Report("Passed", passed) ELSE <<>>)
            \o Report("Failed", failed)
            \o Report("No result from", no_result)
  /\ main_result' = Return(PyInt(ReturnValue(failed)))
  /\ pc' = "exit"
  /\ UNCHANGED <<crVars, substVars, verbose, active, subst_dictionary,
                 self_stdout, sys_stderr,
                 cwd, environ, spawned, called, opts, args, outcome, tests,
                 format_list, fi, ti, passed, failed, no_result, env_writes,
                 runs>>

(* --------------------------- subst, called alone ------------------------ *)

\* the pieces a template is made of
TemplatePieces == {"value=", "%(x)s", "%(x)d", "%d", "%%", "%"}

\* a lone "%" piece is the last one of its string: followed by anything it
\* would be the start of another conversion specification
WellTokenized(t) == \A i \in 1..(Len(t) - 1) : t[i] # "%"

\* the values handed to subst: strings, an argv list, a callable tuple, None
Templates ==
  { PyStr(t) : t \in { u \in SeqsOf(TemplatePieces, 0, MaxTemplateLen) :
                         WellTokenized(u) } }
  \cup {PyList(<<"python", "t1">>), PyTuple(<<"ok", "a">>), PyNone}

InitSubst ==
  /\ \E d \in Dicts : ProcStart(TRUE, TRUE, d)
  /\ MainAbsent
  /\ CRIdle
  /\ s_string \in Templates
  /\ s_dictionary \in {None} \cup Dicts
  /\ s_result = Pending

\* cr.subst_dictionary(dictionary)
SetSubstDictionary ==
  /\ s_result = Pending
  /\ \E d \in Dicts : subst_dictionary' = d
  /\ UNCHANGED <<verbose, active, self_stdout, sys_stdout, sys_stderr, cwd,
                 environ, spawned, called, mainVars, crVars, substVars>>

\* cr.subst(string, dictionary)
SubstCall ==
  /\ s_result = Pending
  /\ s_result' = subst(subst_dictionary, s_string, s_dictionary)
  /\ UNCHANGED <<procVars, mainVars, crVars, s_string, s_dictionary>>

NextSubst == SetSubstDictionary \/ SubstCall

SpecSubst == InitSubst /\ [][NextSubst]_vars

(* ------------------- the runner, called by any caller ------------------- *)

\* the commands handed to the runner: shell strings, an argv list, callable
\* tuples
CdCommand == PyStr(<<"cd", " ", "/tmp">>)
EchoCommand == PyStr(<<"echo", " ", "%(x)s">>)
ArgvCommand == PyList(<<"python", "t1">>)
ChdirCall == PyTuple(<<"chdir", "/tmp">>)
OkCall == PyTuple(<<"ok", "a", "b">>)
BoomCall == PyTuple(<<"boom">>)
Commands == {CdCommand, EchoCommand, ArgvCommand, ChdirCall, OkCall, BoomCall}

\* the display argument of run: None, or a text to show for the command
DisplayOverrides == {PyNone, PyStr(<<"running", "\n">>)}

\* the dictionaries a runner is constructed with
RunnerDicts == { d \in Dicts : \A k \in DOMAIN d : d[k].t = "str" }

\* the exit statuses of the child processes
ChildCodes == {0, 1}

InitCR ==
  /\ \E v \in BOOLEAN, a \in BOOLEAN, d \in RunnerDicts : ProcStart(v, a, d)
  /\ MainAbsent
  /\ CRIdle
  /\ SubstIdle

\* the caller may make a call: none is under way
CanCall == cr_pc = "idle" /\ calls < MaxCalls

\* cr.display(command)
Display ==
  /\ CanCall
  /\ \E command \in Commands :
       LET shown == display(verbose, subst_dictionary, command)
       IN /\ call' = [method |-> "display", command |-> command,
                      display |-> command, sink |-> FALSE]
          /\ sys_stdout' = IF shown.wrote = <<>> THEN sys_stdout
                           ELSE Append(sys_stdout, shown.wrote)
          /\ ret' = shown.res
  /\ calls' = calls + 1
  /\ UNCHANGED <<verbose, active, subst_dictionary, self_stdout, sys_stderr,
                 cwd, environ, spawned, called, mainVars, cr_pc, child, pipe,
                 substVars>>

\* the body of execute(command, stdout) up to its return or, for a process,
\* up to p.wait(); hasSink tells whether the caller passed a stdout
ExecuteBody(command, hasSink) ==
  LET branch == execute(active, subst_dictionary, command)
  IN CASE branch.path = "call" ->
            LET done == CallFunc(branch.res.val, cwd)
            IN /\ called' = Append(called, branch.res.val)
               /\ cwd' = done.cwd
               /\ ret' = done.res
               /\ UNCHANGED <<spawned, cr_pc, child, pipe>>
       [] branch.path = "spawn" ->
            /\ \E n \in 0..MaxOutput, code \in ChildCodes :
                 child' = [total |-> n, remaining |-> n, code |-> code,
                           exited |-> FALSE, sink |-> hasSink]
            /\ spawned' = Append(spawned,
                            [argv |-> branch.res.val.s, sink |-> hasSink,
                             env |-> environ, format |-> ""])
            /\ pipe' = 0
            /\ cr_pc' = "wait"
            /\ ret' = Pending
            /\ UNCHANGED <<called, cwd>>
       [] OTHER ->
            /\ ret' = branch.res
            /\ UNCHANGED <<called, cwd, spawned, cr_pc, child, pipe>>

\* cr.execute(command, stdout)
Execute ==
  /\ CanCall
  /\ \E command \in Commands, hasSink \in BOOLEAN :
       /\ call' = [method |-> "execute", command |-> command,
                   display |-> PyNone, sink |-> hasSink]
       /\ ExecuteBody(command, hasSink)
  /\ calls' = calls + 1
  /\ UNCHANGED <<verbose, active, subst_dictionary, self_stdout, sys_stdout,
                 sys_stderr, environ, mainVars, substVars>>

\* cr.run(command, display, stdout): display of the display argument, or of
\* the command when it is None, then execute unless display raised
Run ==
  /\ CanCall
  /\ \E command \in Commands, override \in DisplayOverrides,
        hasSink \in BOOLEAN :
       LET text == IF override = PyNone THEN command ELSE override
           shown == display(verbose, subst_dictionary, text)
       IN /\ call' = [method |-> "run", command |-> command,
                      display |-> text, sink |-> hasSink]
          /\ sys_stdout' = IF shown.wrote = <<>> THEN sys_stdout
                           ELSE Append(sys_stdout, shown.wrote)
          /\ IF shown.res.kind = "raise"
             THEN /\ ret' = shown.res
                  /\ UNCHANGED <<called, cwd, spawned, cr_pc, child, pipe>>
             ELSE ExecuteBody(command, hasSink)
  /\ calls' = calls + 1
  /\ UNCHANGED <<verbose, active, subst_dictionary, self_stdout, sys_stderr,
                 environ, mainVars, substVars>>

\* the child writes one byte of its output: to the sink, or into the pipe
\* when the pipe has room
ChildWrite ==
  /\ cr_pc = "wait"
  /\ ~child.exited
  /\ child.remaining > 0
  /\ child.sink \/ pipe < PipeCapacity
  /\ child' = [child EXCEPT !.remaining = @ - 1]
  /\ pipe' = IF child.sink THEN pipe ELSE pipe + 1
  /\ UNCHANGED <<procVars, mainVars, calls, call, ret, cr_pc, substVars>>

\* the child has written all its output and exits
ChildExit ==
  /\ cr_pc = "wait"
  /\ ~child.exited
  /\ child.remaining = 0
  /\ child' = [child EXCEPT !.exited = TRUE]
  /\ UNCHANGED <<procVars, mainVars, calls, call, ret, cr_pc, pipe,
                 substVars>>

\* p.wait() returns once the child has exited; execute then reads the pipe,
\* if there is one, into self.stdout and returns p.returncode
WaitReturns ==
  /\ cr_pc = "wait"
  /\ child.exited
  /\ self_stdout' = IF child.sink THEN self_stdout ELSE <<pipe>>
  /\ pipe' = 0
  /\ ret' = Return(PyInt(child.code))
  /\ cr_pc' = "idle"
  /\ UNCHANGED <<verbose, active, subst_dictionary, sys_stdout, sys_stderr,
                 cwd, environ, spawned, called, mainVars, calls, call, child,
                 substVars>>

NextCR ==
  \/ Display
  \/ Execute
  \/ Run
  \/ ChildWrite
  \/ ChildExit
  \/ WaitReturns

SpecCR == InitCR /\ [][NextCR]_vars

(* ----------------------- main and its test scripts ---------------------- *)

\* the steps of main and, while it waits for one, the exit of a test script
Next ==
  \/ MainUsage
  \/ MainList
  \/ MainStart
  \/ FormatIter
  \/ RunTestDry
  \/ RunTestSpawn
  \/ ChildExit
  \/ RunTestReturns
  \/ EndTests
  \/ MainReturn

Spec == Init /\ [][Next]_vars

(* ------------------------ properties of the matrix ---------------------- *)

\* number of occurrences of x in seq
Count(seq, x) == Cardinality({ i \in 1..Len(seq) : seq[i] = x })

\* the tests of the runs whose status is in S, in the order of the runs
RECURSIVE TestsWithStatus(_, _)
TestsWithStatus(rs, S) ==
  IF rs = <<>> THEN <<>>
  ELSE (IF Head(rs).status \in S THEN <<Head(rs).test>> ELSE <<>>)
       \o TestsWithStatus(Tail(rs), S)

\* main went through the whole matrix and returned
MatrixDone == pc = "exit" /\ main_result.kind = "return" /\ ~NoTestsNamed

\* number of runs the two loops have completed, from their positions
RunsCompleted ==
  CASE pc \in {"tests", "wait"} -> (fi - 1) * Len(tests) + (ti - 1)
    [] pc = "formats" -> (fi - 1) * Len(tests)
    [] MatrixDone -> Len(format_list) * Len(tests)
    [] OTHER -> 0

\* C1: at every point of main the three result lists hold together as many
\* entries as runs were completed, |formats| x |tests| once the matrix is
\* done, and none when the list of tests is empty.
LedgerTotals ==
  /\ Len(passed) + Len(failed) + Len(no_result) = RunsCompleted
  /\ Len(runs) = RunsCompleted
  /\ MatrixDone =>
       Len(passed) + Len(failed) + Len(no_result)
         = Len(format_list) * Len(tests)
  /\ tests = <<>> => passed = <<>> /\ failed = <<>> /\ no_result = <<>>

\* a matrix of two formats and several tests is done, with entries in each
\* of the three lists
LedgerTotalsWitness ==
  /\ MatrixDone
  /\ Len(format_list) = 2
  /\ Len(tests) >= 2
  /\ passed # <<>> /\ failed # <<>> /\ no_result # <<>>

\* C2: a test is filed by the status cr.run returned alone: 2 in no_result,
\* any other nonzero status in failed, 0 in passed; a test that returned 0
\* in every run is in passed only, once per format and place in the list of
\* tests, a test that returned 2 in every run is in no_result only.
FiledByStatus ==
  \A t \in TestNames :
    LET of(S) == Count(TestsWithStatus(runs, S), t)
        always(n) == \A k \in 1..Len(runs) :
                       runs[k].test = t => runs[k].status = n
    IN /\ Count(no_result, t) = of({2})
       /\ Count(failed, t) = of(Statuses \ {0, 2})
       /\ Count(passed, t) = of({0})
       /\ MatrixDone /\ always(0) =>
            /\ Count(passed, t) = Len(format_list) * Count(tests, t)
            /\ Count(failed, t) = 0 /\ Count(no_result, t) = 0
       /\ MatrixDone /\ always(2) =>
            /\ Count(no_result, t) = Len(format_list) * Count(tests, t)
            /\ Count(failed, t) = 0 /\ Count(passed, t) = 0

\* the matrix is done with a negative status filed in failed and a status 2
\* filed in no_result
FiledByStatusWitness ==
  /\ MatrixDone
  /\ \E k \in 1..Len(runs) : runs[k].status = -1 /\ runs[k].test = "t2"
  /\ \E k \in 1..Len(runs) : runs[k].status = 2 /\ runs[k].test = "t1"
  /\ Count(failed, "t2") >= 1
  /\ Count(no_result, "t1") = Len(format_list)

\* C3, as claimed: the value main returns is 1 if the failed list is
\* non-empty and 0 otherwise.
ExitCodeByFailedList ==
  main_result.kind = "return" =>
    main_result.val.n = (IF failed # <<>> THEN 1 ELSE 0)

\* C3, amended: when no test is named and -a is not given main returns 1
\* and runs nothing; in every other case the value main returns is 1 if the
\* failed list is non-empty and 0 otherwise, so one status other than 0 and
\* 2 in any run makes it 1 and runs of status 0 and 2 alone make it 0.
ExitCodeOfMatrix ==
  main_result.kind = "return" =>
    IF NoTestsNamed
    THEN main_result.val.n = 1 /\ runs = <<>> /\ failed = <<>>
    ELSE /\ main_result.val.n = (IF failed # <<>> THEN 1 ELSE 0)
         /\ (\E k \in 1..Len(runs) : runs[k].status \notin {0, 2})
              => main_result.val.n = 1
         /\ (\A k \in 1..Len(runs) : runs[k].status \in {0, 2})
              => main_result.val.n = 0

\* main returned 1 for one failed run among runs that passed
ExitCodeWitness ==
  /\ MatrixDone
  /\ main_result.val.n = 1
  /\ Len(failed) = 1
  /\ Len(passed) >= 3

\* C4: the runs are made format by format in the order of the list of
\* formats and, under a format, test by test in the order of the list of
\* tests, each pair once; every result list holds the tests of its runs in
\* the order of the runs, repeated names kept; an active runner has spawned
\* one script per filed run, and one more while it waits for a script to
\* exit.  With tests [t1, t2] and
\* formats [fmtA, fmtB], t2 failing under fmtA only: passed = [t1, t1, t2],
\* failed = [t2], return value 1.
MatrixOrder ==
  /\ \A k \in 1..Len(runs) :
       /\ runs[k].format = format_list[((k - 1) \div Len(tests)) + 1]
       /\ runs[k].test = tests[((k - 1) % Len(tests)) + 1]
  /\ active => /\ Len(spawned) = Len(runs) + (IF pc = "wait" THEN 1 ELSE 0)
               /\ \A k \in 1..Len(runs) :
                    spawned[k].argv = <<Executable, runs[k].test>>
  /\ passed = TestsWithStatus(runs, {0})
  /\ failed = TestsWithStatus(runs, Statuses \ {0, 2})
  /\ no_result = TestsWithStatus(runs, {2})
  /\ MatrixDone => Len(runs) = Len(format_list) * Len(tests)
  /\ ( /\ MatrixDone
       /\ active
       /\ tests = <<"t1", "t2">>
       /\ format_list = <<"fmtA", "fmtB">>
       /\ outcome = OutcomeScenario )
     => /\ passed = <<"t1", "t1", "t2">>
        /\ failed = <<"t2">>
        /\ no_result = <<>>
        /\ main_result = Return(PyInt(1))

\* the matrix of the scenario is done
MatrixOrderWitness ==
  /\ MatrixDone
  /\ active
  /\ tests = <<"t1", "t2">>
  /\ format_list = <<"fmtA", "fmtB">>
  /\ outcome = OutcomeScenario
  /\ Len(runs) = 4

\* C7: every test process is spawned with TESTGYP_FORMAT equal to the
\* format of its run; the variable is assigned once per iteration of the
\* loop over the formats, before the first test of the format and not
\* between two tests, and holds the last format once the matrix is done.
FormatPublished ==
  /\ \A k \in 1..Len(spawned) :
       spawned[k].env.TESTGYP_FORMAT = <<spawned[k].format>>
  /\ pc \in {"tests", "wait"} =>
       /\ env_writes = fi
       /\ environ.TESTGYP_FORMAT = <<format_list[fi]>>
  /\ pc = "formats" => env_writes = fi - 1
  /\ MatrixDone =>
       /\ env_writes = Len(format_list)
       /\ environ.TESTGYP_FORMAT = <<format_list[Len(format_list)]>>

\* tests were spawned under two different formats and the matrix is done
FormatPublishedWitness ==
  /\ MatrixDone
  /\ Len(format_list) = 2
  /\ format_list[1] # format_list[2]
  /\ Len(spawned) >= 4
  /\ spawned[1].format # spawned[Len(spawned)].format

(* ------------------------- properties of subst -------------------------- *)

\* the dictionary a call of subst works with
SubstDict == IF s_dictionary = None THEN subst_dictionary ELSE s_dictionary

\* the string holds no '%' at all
NoPercent(string) ==
  \A i \in 1..Len(string.s) :
    string.s[i] \notin {"%(x)s", "%(x)d", "%d", "%%", "%"}

\* C6, as claimed: subst never raises.
SubstNeverRaises == s_result.kind # "raise"

\* C6, amended: subst recovers from a TypeError only.  A type mismatch or a
\* template that is not a string is recovered and the original value is
\* returned unchanged; a placeholder whose key is missing from a non-empty
\* dictionary raises KeyError and an incomplete conversion raises
\* ValueError, both to the caller.  A template without '%' is returned
\* unchanged under any dictionary, any template is under an empty one, and
\* 'value=%(x)s' with {x: 'A'} gives 'value=A'.
SubstRecovers ==
  s_result # Pending =>
    LET d == SubstDict
        m == PyMod(s_string, d)
    IN /\ s_result.exc \in {"", "KeyError", "ValueError"}
       /\ s_string.type # "str" => s_result = Return(s_string)
       /\ ~Truthy(d) => s_result = Return(s_string)
       /\ NoPercent(s_string) => s_result = Return(s_string)
       /\ Truthy(d) /\ m.exc = "TypeError" => s_result = Return(s_string)
       /\ ( /\ s_string \in {PyStr(<<"%(x)d">>), PyStr(<<"value=", "%(x)d">>)}
            /\ "x" \in DOMAIN d
            /\ d["x"].t = "str" )
          => s_result = Return(s_string)
       /\ Truthy(d) /\ s_string = PyStr(<<"%d">>)
            => s_result = Return(s_string)
       /\ Truthy(d) /\ m.exc = "KeyError"
            => s_result = Raise("KeyError", s_string)
       /\ ( /\ s_string = PyStr(<<"value=", "%(x)s">>)
            /\ Truthy(d)
            /\ "x" \notin DOMAIN d )
          => s_result = Raise("KeyError", s_string)
       /\ Truthy(d) /\ s_string = PyStr(<<"value=", "%">>)
            => s_result = Raise("ValueError", s_string)
       /\ ( /\ s_string = PyStr(<<"value=", "%(x)s">>)
            /\ "x" \in DOMAIN d
            /\ d["x"] = [t |-> "str", v |-> <<"A">>] )
          => s_result = Return(PyStr(<<"value=", "A">>))

\* subst returned a template unchanged after a type mismatch: %(x)d for a
\* string value
SubstRecoversWitness ==
  /\ s_result = Return(s_string)
  /\ s_string = PyStr(<<"value=", "%(x)d">>)
  /\ "x" \in DOMAIN SubstDict
  /\ SubstDict["x"].t = "str"

(* ------------------------ properties of the runner ---------------------- *)

\* the call last made has ended
CallEnded == calls > 0 /\ cr_pc = "idle"

\* C5: on a runner that is not active, execute returns 0 for a command of
\* any shape and nothing happens: no process is spawned, no callable is
\* invoked, the working directory stays and cr.stdout is not assigned.
DryRunDoesNothing ==
  ~active =>
    /\ spawned = <<>>
    /\ called = <<>>
    /\ cwd = "/start"
    /\ self_stdout = <<>>
    /\ cr_pc = "idle"
    /\ calls > 0 /\ call.method = "execute" => ret = Return(PyInt(0))
    /\ calls > 0 /\ call.method = "run" /\ ret.kind = "return"
         => ret = Return(PyInt(0))

\* execute of a callable tuple ended on a runner that is not active
DryRunWitness ==
  /\ ~active
  /\ CallEnded
  /\ call.method = "execute"
  /\ call.command = ChdirCall
  /\ ret = Return(PyInt(0))

\* C8: on an active runner, execute of the string 'cd /tmp' changes the
\* working directory of the process to /tmp and spawns nothing, and execute
\* of a string that does not start with 'cd' runs it as a process: neither
\* call raises.
CdChangesDirectory ==
  (active /\ CallEnded /\ call.method = "execute") =>
    /\ call.command = CdCommand =>
         ret.kind = "return" /\ cwd = "/tmp"
    /\ (call.command = EchoCommand /\ "x" \in DOMAIN subst_dictionary) =>
         ret.kind = "return"

\* C9: on a verbose runner, display of a callable tuple writes the line
\* funcname(repr(arg1), ...) with one newline and returns, and run of it
\* goes on to execute the callable; display of an argv list writes its
\* items joined by spaces; nothing is written when the runner is not
\* verbose.
DisplayOfCallable ==
  (CallEnded /\ call.method \in {"display", "run"}) =>
    /\ (verbose /\ call.display.type = "tuple") =>
         /\ sys_stdout # <<>>
         /\ sys_stdout[Len(sys_stdout)]
              = Append(CallableText(call.display), "\n")
         /\ call.method = "display" => ret = Return(PyNone)
         /\ call.method = "run" /\ active =>
              /\ called # <<>>
              /\ called[Len(called)] = call.command
    /\ (verbose /\ call.display.type = "list") =>
         /\ sys_stdout # <<>>
         /\ sys_stdout[Len(sys_stdout)]
              = Append(Join(" ", call.display.s), "\n")
    /\ ~verbose => sys_stdout = <<>>

\* C10: execute of an argv list without a stdout sink never leaves the
\* child blocked on a full pipe while execute is in p.wait().
PipeNeverBlocks ==
  ~( /\ cr_pc = "wait"
     /\ ~child.sink
     /\ ~child.exited
     /\ child.remaining > 0
     /\ pipe = PipeCapacity )

====
